---- MODULE Spec2Model ----
(***************************************************************************)
(* Career Pathfinder API (main.py): the question catalog, the RIASEC       *)
(* scoring handler assess and its best-effort persistence call.            *)
(***************************************************************************)
EXTENDS Integers, Sequences, FiniteSets, TLC

VARIABLES
    QUESTIONS,       \* module-level list of question dicts
    CAREER_MAP,      \* module-level dict: type -> list of career titles
    SUMMARY_BLURBS,  \* module-level dict: type -> sentence
    pc,              \* position of the handler being served
    req,             \* the AssessmentRequest being served
    idx,             \* number of answers the for-loop has consumed
    scores,          \* local of assess
    top_types,       \* local of assess
    suggested,       \* local of assess
    summary,         \* local of assess
    doc_id,          \* local of assess
    created,         \* documents handed to create_document during this call
    response,        \* what the handler returned (or the HTTPException raised)
    assessed         \* history: TRUE once some call of assess has ended

vars == <<QUESTIONS, CAREER_MAP, SUMMARY_BLURBS, pc, req, idx, scores,
          top_types, suggested, summary, doc_id, created, response, assessed>>

tables == <<QUESTIONS, CAREER_MAP, SUMMARY_BLURBS>>
locals == <<scores, top_types, suggested, summary, doc_id, created>>

-----------------------------------------------------------------------------
(* Bounds of the model *)

\* longest answer list enumerated exhaustively over the whole input alphabet
MaxLen == 2
\* longest questionnaire-shaped answer list (ids cycling 1..12)
MaxFull == 13

-----------------------------------------------------------------------------
(* Program constants *)

\* variant: the slice [:2] left out
TopNAll == Len(<<"R", "I", "A", "S", "E", "C">>)

\* top_types keeps the first two maximal types: [...][:2]
TopN == 2
\* careers taken from each top type: CAREER_MAP.get(t, [])[:3]
CareersPerType == 3
\* status_code of the HTTPException raised on a bad answer
BadRequest == 400

None == "<None>"

\* key order of the scores dict literal: for k in ["R","I","A","S","E","C"]
TYPES == <<"R", "I", "A", "S", "E", "C">>

Range(s) == {s[k] : k \in DOMAIN s}

Take(s, n) == SubSeq(s, 1, IF n < Len(s) THEN n ELSE Len(s))

QUESTIONS0 == <<
  [id |-> 1,  text |-> "I enjoy building or fixing things with my hands.", A |-> "Agree", B |-> "Disagree", type |-> "R"],
  [id |-> 2,  text |-> "I like working with tools or machines.", A |-> "Agree", B |-> "Disagree", type |-> "R"],
  [id |-> 3,  text |-> "I enjoy solving math or science problems.", A |-> "Agree", B |-> "Disagree", type |-> "I"],
  [id |-> 4,  text |-> "I like analyzing data and figuring out how things work.", A |-> "Agree", B |-> "Disagree", type |-> "I"],
  [id |-> 5,  text |-> "I like to create art, music, or write.", A |-> "Agree", B |-> "Disagree", type |-> "A"],
  [id |-> 6,  text |-> "I prefer unstructured tasks where I can be original.", A |-> "Agree", B |-> "Disagree", type |-> "A"],
  [id |-> 7,  text |-> "I enjoy helping people and improving their lives.", A |-> "Agree", B |-> "Disagree", type |-> "S"],
  [id |-> 8,  text |-> "I like teaching, counseling, or caring roles.", A |-> "Agree", B |-> "Disagree", type |-> "S"],
  [id |-> 9,  text |-> "I like leading projects and persuading others.", A |-> "Agree", B |-> "Disagree", type |-> "E"],
  [id |-> 10, text |-> "I enjoy business, sales, or entrepreneurship.", A |-> "Agree", B |-> "Disagree", type |-> "E"],
  [id |-> 11, text |-> "I prefer organizing information and keeping things orderly.", A |-> "Agree", B |-> "Disagree", type |-> "C"],
  [id |-> 12, text |-> "I enjoy working with data, records, and details.", A |-> "Agree", B |-> "Disagree", type |-> "C"] >>

NumQuestions == Len(QUESTIONS0)

CAREER_MAP0 ==
  [R |-> <<"Mechanical Engineer", "Electrician", "Carpenter", "Automotive Technician">>,
   I |-> <<"Data Scientist", "Research Analyst", "Software Developer", "Biologist">>,
   A |-> <<"Graphic Designer", "Writer", "Musician", "UX Designer">>,
   S |-> <<"Teacher", "Nurse", "Social Worker", "Therapist">>,
   E |-> <<"Marketing Manager", "Sales Representative", "Entrepreneur", "Product Manager">>,
   C |-> <<"Accountant", "Operations Coordinator", "Data Entry Specialist", "Admin Assistant">>]

SUMMARY_BLURBS0 ==
  [R |-> "Hands-on, practical, and mechanical. You enjoy building, fixing, and working with tools.",
   I |-> "Analytical and curious. You enjoy research, problem-solving, and understanding how things work.",
   A |-> "Creative and expressive. You value originality and enjoy artistic or design-focused tasks.",
   S |-> "Supportive and people-oriented. You find meaning in helping and teaching others.",
   E |-> "Persuasive and leadership-driven. You thrive in business, sales, and leading initiatives.",
   C |-> "Organized and detail-focused. You keep systems running smoothly and accurately."]

-----------------------------------------------------------------------------
(* Inputs *)

\* question_id: int -- the twelve catalog ids and two ids outside the catalog
QIdInputs == (0..12) \cup {999}

\* choice: str -- the two accepted letters and another one
ChoiceInputs == {"A", "B", "C"}

Answer(q, c) == [question_id |-> q, choice |-> c]

AnswerInputs == {Answer(q, c) : q \in QIdInputs, c \in ChoiceInputs}

ShortAnswerLists == UNION {[1..n -> AnswerInputs] : n \in 0..MaxLen}

\* a questionnaire filled in order, ids 1..12 and then around again, each
\* statement of a type answered the way pat gives for the type
FullAnswers(n, pat) ==
    [k \in 1..n |-> Answer(QUESTIONS0[((k - 1) % NumQuestions) + 1].id,
                           pat[QUESTIONS0[((k - 1) % NumQuestions) + 1].type])]

Patterns == [Range(TYPES) -> {"A", "B"}]

FullAnswerLists ==
    {FullAnswers(n, pat) : n \in NumQuestions..MaxFull, pat \in Patterns}

\* a filled questionnaire with one answer replaced by a bad one
BadAnswers == {Answer(999, "A"), Answer(1, "C"), Answer(2, "a"), Answer(0, "")}

SpoiledAnswerLists ==
    {[l EXCEPT ![p] = b] :
        l \in {FullAnswers(NumQuestions, pat) : pat \in Patterns},
        p \in {1, 6, NumQuestions}, b \in BadAnswers}

AssessmentRequest(name, email, answers) ==
    [name |-> name, email |-> email, answers |-> answers]

\* a questionnaire on which the statements of ids agree were answered "A" and
\* the others were left out
AgreedAnswers(agree) ==
    SelectSeq(FullAnswers(NumQuestions, [t \in Range(TYPES) |-> "A"]),
              LAMBDA a : a.question_id \in agree)

AgreedAnswerLists == {AgreedAnswers(agree) : agree \in SUBSET (1..NumQuestions)}

Requests ==
    {AssessmentRequest(None, None, l) : l \in ShortAnswerLists}
    \cup {AssessmentRequest("Ada", "ada@example.org", l) :
              l \in FullAnswerLists \cup SpoiledAnswerLists}
    \cup {AssessmentRequest("Ada", None, l) : l \in AgreedAnswerLists}

DocIds == {"doc1"}

NoRequest == AssessmentRequest(None, None, <<>>)

-----------------------------------------------------------------------------
(* Pure parts of assess *)

\* variant: the counters start at 1
OneScores == [t \in Range(TYPES) |-> 1]

\* scores = {k: 0 for k in ["R","I","A","S","E","C"]}
ZeroScores == [t \in Range(TYPES) |-> 0]

\* q_index = {q["id"]: q for q in QUESTIONS}; a later entry with the same id
\* would replace an earlier one
q_index ==
    [qid \in {QUESTIONS[k].id : k \in DOMAIN QUESTIONS} |->
        QUESTIONS[CHOOSE k \in DOMAIN QUESTIONS :
                     /\ QUESTIONS[k].id = qid
                     /\ \A j \in DOMAIN QUESTIONS :
                            QUESTIONS[j].id = qid => j <= k]]

\* q = q_index.get(ans.question_id); "not q" is true exactly when q is None
KnownQuestion(ans) == ans.question_id \in DOMAIN q_index

\* variant: the choice is not checked
ValidChoiceAny(ans) == ans.choice = ans.choice

\* ans.choice not in ("A", "B")
ValidChoice(ans) == ans.choice \in {"A", "B"}

\* variant: every accepted answer counts, "B" too
TallyAnyChoice(sc, ans) ==
    [sc EXCEPT ![q_index[ans.question_id].type] = @ + 1]

\* if ans.choice == "A": scores[q["type"]] += 1
Tally(sc, ans) ==
    IF ans.choice = "A"
    THEN [sc EXCEPT ![q_index[ans.question_id].type] = @ + 1]
    ELSE sc

\* scores.items(): (key, value) pairs in the dict's insertion order
items(sc) == [k \in 1..Len(TYPES) |-> <<TYPES[k], sc[TYPES[k]]>>]

Reverse(s) == [k \in 1..Len(s) |-> s[Len(s) + 1 - k]]

\* one step of a stable ascending insertion sort on key x[1] (index 2 here):
\* x goes after every element whose key is <= its own
RECURSIVE InsertAsc(_, _)
InsertAsc(s, x) ==
    IF s = <<>> THEN <<x>>
    ELSE IF s[Len(s)][2] <= x[2] THEN Append(s, x)
    ELSE Append(InsertAsc(SubSeq(s, 1, Len(s) - 1), x), s[Len(s)])

RECURSIVE SortAsc(_)
SortAsc(s) ==
    IF s = <<>> THEN <<>>
    ELSE InsertAsc(SortAsc(SubSeq(s, 1, Len(s) - 1)), s[Len(s)])

\* variant: sorted ascending and then reversed, which turns ties around
sorted_types_reversed(sc) == Reverse(SortAsc(items(sc)))

\* sorted(scores.items(), key=lambda x: x[1], reverse=True): list.sort with
\* reverse reverses the list, sorts it stably ascending and reverses it again,
\* so equal keys keep their original order
sorted_types(sc) == Reverse(SortAsc(Reverse(items(sc))))

\* max_score = sorted_types[0][1]
max_score(sc) == sorted_types(sc)[1][2]

Keys(pairs) == [k \in 1..Len(pairs) |-> pairs[k][1]]

\* variant: the "or [sorted_types[0][0]]" fallback left out
TopTypesNoFallback(sc) ==
    Take(Keys(SelectSeq(sorted_types(sc),
                LAMBDA x : x[2] = max_score(sc) /\ x[2] > 0)), TopN)

\* [t for t, s in sorted_types if s == max_score and s > 0][:2]
\*     or [sorted_types[0][0]]
TopTypes(sc) ==
    LET best == Take(Keys(SelectSeq(sorted_types(sc),
                        LAMBDA x : x[2] = max_score(sc) /\ x[2] > 0)), TopN)
    IN  IF best # <<>> THEN best ELSE <<sorted_types(sc)[1][1]>>

\* for c in cs: if c not in suggested: suggested.append(c)
RECURSIVE AppendNew(_, _)
AppendNew(acc, cs) ==
    IF cs = <<>> THEN acc
    ELSE AppendNew(IF cs[1] \in Range(acc) THEN acc ELSE Append(acc, cs[1]),
                   Tail(cs))

\* variant: the slice [:3] left out
CareersOfAll(t) == IF t \in DOMAIN CAREER_MAP THEN CAREER_MAP[t] ELSE <<>>

\* CAREER_MAP.get(t, [])[:3]
CareersOf(t) ==
    IF t \in DOMAIN CAREER_MAP THEN Take(CAREER_MAP[t], CareersPerType)
    ELSE <<>>

\* for t in top_types: for c in CAREER_MAP.get(t, [])[:3]: ...
RECURSIVE Suggest(_, _)
Suggest(acc, tt) ==
    IF tt = <<>> THEN acc
    ELSE Suggest(AppendNew(acc, CareersOf(tt[1])), Tail(tt))

\* " ".join(parts)
RECURSIVE Join(_)
Join(parts) ==
    IF parts = <<>> THEN ""
    ELSE IF Len(parts) = 1 THEN parts[1]
    ELSE parts[1] \o " " \o Join(Tail(parts))

\* " ".join([SUMMARY_BLURBS[t] for t in top_types])
Summary(tt) == Join([k \in 1..Len(tt) |-> SUMMARY_BLURBS[tt[k]]])

\* the dict handed to create_document
Document ==
    [name |-> req.name, email |-> req.email, scores |-> scores,
     top_types |-> top_types, careers |-> suggested, summary |-> summary]

\* the dict assess returns
Result ==
    [id |-> doc_id, scores |-> scores, top_types |-> top_types,
     careers |-> suggested, summary |-> summary]

\* variant: the whole question dict is sent, type included
QuestionsPayloadWithType == QUESTIONS

\* [{"id": ..., "text": ..., "options": {"A": ..., "B": ...}} for q in QUESTIONS]
QuestionsPayload ==
    [k \in 1..Len(QUESTIONS) |->
        [id |-> QUESTIONS[k].id, text |-> QUESTIONS[k].text,
         options |-> [A |-> QUESTIONS[k].A, B |-> QUESTIONS[k].B]]]

\* a response: the route that produced it, and either the value the handler
\* returned or the HTTPException it raised
Returned(route, body) == [kind |-> "return", route |-> route, body |-> body]

HTTPException(route, status_code, detail) ==
    [kind |-> "HTTPException", route |-> route, status_code |-> status_code,
     detail |-> detail]

NoResponse == [kind |-> "none", route |-> None]

-----------------------------------------------------------------------------
(* The handlers *)

Init ==
    /\ QUESTIONS = QUESTIONS0
    /\ CAREER_MAP = CAREER_MAP0
    /\ SUMMARY_BLURBS = SUMMARY_BLURBS0
    /\ pc = "idle"
    /\ req = NoRequest
    /\ idx = 0
    /\ scores = ZeroScores
    /\ top_types = <<>>
    /\ suggested = <<>>
    /\ summary = ""
    /\ doc_id = None
    /\ created = <<>>
    /\ response = NoResponse
    /\ assessed = FALSE

\* GET /api/questions
get_questions ==
    /\ pc = "idle"
    /\ response' = Returned("/api/questions", QuestionsPayload)
    /\ pc' = "done"
    /\ UNCHANGED <<tables, req, idx, locals, assessed>>

\* POST /api/assess: the request arrives, scores and q_index are set up
assess_begin(r) ==
    /\ pc = "idle"
    /\ req' = r
    /\ scores' = ZeroScores
    /\ idx' = 0
    /\ pc' = "loop"
    /\ UNCHANGED <<tables, top_types, suggested, summary, doc_id, created,
                   response, assessed>>

\* one iteration of "for ans in req.answers" that raises nothing
assess_tally ==
    /\ pc = "loop"
    /\ idx < Len(req.answers)
    /\ LET ans == req.answers[idx + 1] IN
        /\ KnownQuestion(ans)
        /\ ValidChoice(ans)
        /\ scores' = Tally(scores, ans)
    /\ idx' = idx + 1
    /\ UNCHANGED <<tables, pc, req, top_types, suggested, summary, doc_id,
                   created, response, assessed>>

\* the iteration that raises HTTPException(400, "Invalid question id: ...")
assess_bad_question ==
    /\ pc = "loop"
    /\ idx < Len(req.answers)
    /\ LET ans == req.answers[idx + 1] IN
        /\ ~KnownQuestion(ans)
        /\ response' = HTTPException("/api/assess", BadRequest,
                            <<"Invalid question id: ", ans.question_id>>)
    /\ pc' = "done"
    /\ assessed' = TRUE
    /\ UNCHANGED <<tables, req, idx, locals>>

\* the iteration that raises HTTPException(400, "Choice must be 'A' or 'B'")
assess_bad_choice ==
    /\ pc = "loop"
    /\ idx < Len(req.answers)
    /\ LET ans == req.answers[idx + 1] IN
        /\ KnownQuestion(ans)
        /\ ~ValidChoice(ans)
        /\ response' = HTTPException("/api/assess", BadRequest,
                            <<"Choice must be 'A' or 'B'">>)
    /\ pc' = "done"
    /\ assessed' = TRUE
    /\ UNCHANGED <<tables, req, idx, locals>>

\* after the loop: top types, careers and summary
assess_aggregate ==
    /\ pc = "loop"
    /\ idx = Len(req.answers)
    /\ top_types' = TopTypes(scores)
    /\ suggested' = Suggest(<<>>, top_types')
    /\ summary' = Summary(top_types')
    /\ pc' = "persist"
    /\ UNCHANGED <<tables, req, idx, scores, doc_id, created, response,
                   assessed>>

\* try: doc_id = create_document("assessmentresult", {...}) -- it returns
assess_persist_ok(id) ==
    /\ pc = "persist"
    /\ created' = Append(created, [collection_name |-> "assessmentresult",
                                    data |-> Document, raised |-> FALSE])
    /\ doc_id' = id
    /\ pc' = "return"
    /\ UNCHANGED <<tables, req, idx, scores, top_types, suggested, summary,
                   response, assessed>>

\* variant: no try/except, the error of create_document ends the request
assess_persist_propagates ==
    /\ pc = "persist"
    /\ created' = Append(created, [collection_name |-> "assessmentresult",
                                    data |-> Document, raised |-> TRUE])
    /\ response' = HTTPException("/api/assess", 500,
                                 <<"Internal Server Error">>)
    /\ pc' = "done"
    /\ assessed' = TRUE
    /\ UNCHANGED <<tables, req, idx, scores, top_types, suggested, summary,
                   doc_id>>

\* variant: the failed call is tried again
assess_persist_retry ==
    /\ pc = "persist"
    /\ Len(created) < 2
    /\ created' = Append(created, [collection_name |-> "assessmentresult",
                                    data |-> Document, raised |-> TRUE])
    /\ UNCHANGED <<tables, pc, req, idx, scores, top_types, suggested, summary,
                   doc_id, response, assessed>>

\* except Exception: doc_id = None -- create_document raised
assess_persist_failed ==
    /\ pc = "persist"
    /\ created' = Append(created, [collection_name |-> "assessmentresult",
                                    data |-> Document, raised |-> TRUE])
    /\ doc_id' = None
    /\ pc' = "return"
    /\ UNCHANGED <<tables, req, idx, scores, top_types, suggested, summary,
                   response, assessed>>

\* return {"id": doc_id, "scores": scores, ...}
assess_return ==
    /\ pc = "return"
    /\ response' = Returned("/api/assess", Result)
    /\ pc' = "done"
    /\ assessed' = TRUE
    /\ UNCHANGED <<tables, req, idx, locals>>

\* the response has been sent; the handler's locals are gone and the server
\* waits for the next request
next_request ==
    /\ pc = "done"
    /\ pc' = "idle"
    /\ req' = NoRequest
    /\ idx' = 0
    /\ scores' = ZeroScores
    /\ top_types' = <<>>
    /\ suggested' = <<>>
    /\ summary' = ""
    /\ doc_id' = None
    /\ created' = <<>>
    /\ response' = NoResponse
    /\ UNCHANGED <<tables, assessed>>

Next ==
    \/ get_questions
    \/ (pc = "idle" /\ \E r \in Requests : assess_begin(r))
    \/ assess_tally
    \/ assess_bad_question
    \/ assess_bad_choice
    \/ assess_aggregate
    \/ (pc = "persist" /\ \E id \in DocIds : assess_persist_ok(id))
    \/ assess_persist_failed
    \/ assess_return
    \/ next_request

Spec == Init /\ [][Next]_vars

TypeOK ==
    /\ pc \in {"idle", "loop", "persist", "return", "done"}
    /\ idx \in 0..Len(req.answers)
    /\ DOMAIN scores = Range(TYPES)
    /\ assessed \in BOOLEAN

-----------------------------------------------------------------------------
(* What the claims speak about, stated from the request alone *)

\* a call of assess has ended
AssessEnded == pc = "done" /\ response.route = "/api/assess"

\* assess returned a result
AssessResult == AssessEnded /\ response.kind = "return"

\* assess raised the client error
AssessRejected ==
    /\ AssessEnded
    /\ response.kind = "HTTPException"
    /\ response.status_code = BadRequest

CatalogIds == {QUESTIONS0[k].id : k \in DOMAIN QUESTIONS0}

\* the type of the catalog question with this id
TypeOfQuestion(qid) ==
    QUESTIONS0[CHOOSE k \in DOMAIN QUESTIONS0 : QUESTIONS0[k].id = qid].type

ValidAnswer(a) == a.question_id \in CatalogIds /\ a.choice \in {"A", "B"}

AllValid(answers) == \A k \in DOMAIN answers : ValidAnswer(answers[k])

\* the number of answers "A" to questions of type t
CountA(answers, t) ==
    Cardinality({k \in DOMAIN answers :
                    /\ answers[k].choice = "A"
                    /\ answers[k].question_id \in CatalogIds
                    /\ TypeOfQuestion(answers[k].question_id) = t})

NumA(answers) == Cardinality({k \in DOMAIN answers : answers[k].choice = "A"})

Total(sc) == sc["R"] + sc["I"] + sc["A"] + sc["S"] + sc["E"] + sc["C"]

Highest(sc) == CHOOSE m \in {sc[t] : t \in DOMAIN sc} : \A t \in DOMAIN sc : sc[t] <= m

\* the types with the highest score, in the order R, I, A, S, E, C
Leaders(sc) == SelectSeq(<<"R", "I", "A", "S", "E", "C">>, LAMBDA t : sc[t] = Highest(sc))

NoDuplicate(s) == \A j, k \in DOMAIN s : j # k => s[j] # s[k]

\* C1: when assess returns, scores has exactly the keys R, I, A, S, E, C, each
\* value is >= 0 and is the number of submitted answers "A" to questions of
\* that type, and the six values add up to the number of answers "A"
C1_ScoresCountAgreements ==
    AssessResult =>
        /\ AllValid(req.answers)
        /\ DOMAIN response.body.scores = {"R", "I", "A", "S", "E", "C"}
        /\ \A t \in {"R", "I", "A", "S", "E", "C"} :
              /\ response.body.scores[t] >= 0
              /\ response.body.scores[t] = CountA(req.answers, t)
        /\ Total(response.body.scores) = NumA(req.answers)

\* a result for a list that repeats a question with "A" and also holds a "B"
C1_Witness ==
    /\ AssessResult
    /\ \E j, k \in DOMAIN req.answers :
          /\ j # k
          /\ req.answers[j] = req.answers[k]
          /\ req.answers[j].choice = "A"
    /\ \E k \in DOMAIN req.answers : req.answers[k].choice = "B"
    /\ response.body.scores["R"] = 3

\* C2: when some score is positive, top_types is the types whose score is
\* the highest, in the order R, I, A, S, E, C, cut to the first two
C2_TopTypesAreLeaders ==
    (AssessResult /\ \E t \in DOMAIN response.body.scores : response.body.scores[t] > 0)
        => response.body.top_types =
               SubSeq(Leaders(response.body.scores), 1,
                      IF Len(Leaders(response.body.scores)) < 2
                      THEN Len(Leaders(response.body.scores)) ELSE 2)

\* a three-way tie among I, S and C answered [I, S]
C2_Witness ==
    /\ AssessResult
    /\ Leaders(response.body.scores) = <<"I", "S", "C">>
    /\ response.body.scores["I"] > 0
    /\ response.body.top_types = <<"I", "S">>

\* C3: when the answer list is empty or every answer is "B", all scores are
\* zero and top_types is the one-element list [R]
C3_NoAgreementFallsBackToR ==
    (AssessResult /\ \A k \in DOMAIN req.answers : req.answers[k].choice = "B")
        => /\ \A t \in DOMAIN response.body.scores : response.body.scores[t] = 0
           /\ response.body.top_types = <<"R">>

\* twelve answers, all "B"
C3_Witness ==
    /\ AssessResult
    /\ Len(req.answers) = NumQuestions
    /\ \A k \in DOMAIN req.answers : req.answers[k].choice = "B"
    /\ response.body.top_types = <<"R">>

\* C4: top_types has length 1 or 2, holds only type codes, holds none twice,
\* and every type in it has the highest of the six scores
C4_TopTypesShape ==
    AssessResult =>
        /\ Len(response.body.top_types) \in {1, 2}
        /\ Range(response.body.top_types) \subseteq {"R", "I", "A", "S", "E", "C"}
        /\ NoDuplicate(response.body.top_types)
        /\ \A k \in DOMAIN response.body.top_types :
              response.body.scores[response.body.top_types[k]]
                  = Highest(response.body.scores)

\* four types share the highest score and two are listed
C4_Witness ==
    /\ AssessResult
    /\ Len(Leaders(response.body.scores)) = 4
    /\ Highest(response.body.scores) = 1
    /\ Len(response.body.top_types) = 2

\* the first three titles of a type in the career table
FirstThree(t) == SubSeq(CAREER_MAP0[t], 1, 3)

RECURSIVE Listed(_)
Listed(tt) == IF tt = <<>> THEN <<>> ELSE FirstThree(tt[1]) \o Listed(Tail(tt))

\* s without the later occurrences of a value it holds already
RECURSIVE FirstSeenOnly(_)
FirstSeenOnly(s) ==
    IF s = <<>> THEN <<>>
    ELSE LET front == FirstSeenOnly(SubSeq(s, 1, Len(s) - 1)) IN
         IF s[Len(s)] \in Range(front) THEN front ELSE Append(front, s[Len(s)])

\* C5: careers is the first three titles of each top type, in the order of
\* top_types, a title already listed being skipped; it holds no title twice
\* and at most six; for top_types [R, I] it is R's three and then I's three
C5_CareersOfTopTypes ==
    AssessResult =>
        /\ response.body.careers = FirstSeenOnly(Listed(response.body.top_types))
        /\ NoDuplicate(response.body.careers)
        /\ Len(response.body.careers) <= 6
        /\ Len(response.body.top_types) = 1 => Len(response.body.careers) = 3
        /\ response.body.top_types = <<"R", "I">> =>
              response.body.careers =
                  <<"Mechanical Engineer", "Electrician", "Carpenter",
                    "Data Scientist", "Research Analyst", "Software Developer">>

\* R and I tied at 2 and six titles returned
C5_Witness ==
    /\ AssessResult
    /\ response.body.scores["R"] = 2
    /\ response.body.top_types = <<"R", "I">>
    /\ Len(response.body.careers) = 6

\* a call of assess is being served or has just ended
InAssess == pc \in {"loop", "persist", "return"} \/ AssessEnded

\* C6: a request with an unknown question id or a choice other than "A" and
\* "B" never gets as far as a result: assess ends with status 400, whatever
\* valid answers come before or after; a result means every answer was valid
C6_BadAnswerRejected ==
    /\ (InAssess /\ ~AllValid(req.answers)) =>
          /\ pc \notin {"persist", "return"}
          /\ AssessEnded => AssessRejected
    /\ AssessResult => AllValid(req.answers)

\* a questionnaire whose sixth answer alone is bad, rejected
C6_Witness ==
    /\ AssessRejected
    /\ Len(req.answers) = NumQuestions
    /\ ~ValidAnswer(req.answers[6])
    /\ req.answers[6].question_id \in CatalogIds
    /\ \A k \in DOMAIN req.answers : k # 6 => ValidAnswer(req.answers[k])
    /\ \E k \in DOMAIN req.answers : k < 6 /\ req.answers[k].choice = "A"

ExpectedScores(answers) ==
    [t \in {"R", "I", "A", "S", "E", "C"} |-> CountA(answers, t)]

ExpectedTopTypes(sc) ==
    IF Highest(sc) > 0 THEN SubSeq(Leaders(sc), 1, IF Len(Leaders(sc)) < 2
                                                   THEN Len(Leaders(sc)) ELSE 2)
    ELSE <<"R">>

ExpectedSummary(tt) ==
    IF Len(tt) = 1 THEN SUMMARY_BLURBS0[tt[1]]
    ELSE SUMMARY_BLURBS0[tt[1]] \o " " \o SUMMARY_BLURBS0[tt[2]]

\* C7: for valid answers assess returns a result whether create_document
\* returned or raised, with scores, top_types, careers and summary fixed by
\* the answers alone; id is None when it raised and the identifier it gave
\* when it returned
C7_PersistenceFailureKeepsResult ==
    (AssessEnded /\ AllValid(req.answers)) =>
        /\ response.kind = "return"
        /\ Len(created) >= 1
        /\ response.body.scores = ExpectedScores(req.answers)
        /\ response.body.top_types = ExpectedTopTypes(ExpectedScores(req.answers))
        /\ response.body.careers =
              FirstSeenOnly(Listed(ExpectedTopTypes(ExpectedScores(req.answers))))
        /\ response.body.summary =
              ExpectedSummary(ExpectedTopTypes(ExpectedScores(req.answers)))
        /\ created[Len(created)].raised => response.body.id = None
        /\ ~created[Len(created)].raised => response.body.id \in DocIds

\* a result with two top types returned after create_document raised
C7_Witness ==
    /\ AssessResult
    /\ created # <<>>
    /\ created[1].raised
    /\ response.body.id = None
    /\ Len(response.body.top_types) = 2
    /\ Len(response.body.careers) = 6

DistinctQuestions(answers) ==
    \A j, k \in DOMAIN answers :
        j # k => answers[j].question_id # answers[k].question_id

\* C8 as stated: in every result the scores add up to at most the number of
\* answers, which is at most 12, and no score exceeds 2
C8_AtMostTwelveAnswers ==
    AssessResult =>
        /\ Total(response.body.scores) <= Len(req.answers)
        /\ Len(req.answers) <= 12
        /\ \A t \in DOMAIN response.body.scores : response.body.scores[t] <= 2

\* C8 as amended: in every result the scores add up to at most the number of
\* answers; when no question id occurs twice among the answers there are at
\* most 12 answers and no score exceeds 2
C8_TotalAtMostAnswers ==
    AssessResult =>
        /\ Total(response.body.scores) <= Len(req.answers)
        /\ DistinctQuestions(req.answers) =>
              /\ Len(req.answers) <= 12
              /\ \A t \in DOMAIN response.body.scores :
                    response.body.scores[t] <= 2

\* twelve answers to twelve different questions, all "A"
C8_Witness ==
    /\ AssessResult
    /\ DistinctQuestions(req.answers)
    /\ Len(req.answers) = 12
    /\ Total(response.body.scores) = 12

\* the entry of the questions payload for a catalog question
PublicQuestion(q) ==
    [id |-> q.id, text |-> q.text, options |-> [A |-> q.A, B |-> q.B]]

\* C9: the catalog, the career table and the blurbs are never modified, and
\* whenever get_questions answers it sends the twelve entries in the order
\* of ids 1..12, each with id, text and options {A, B} and nothing else
C9_CatalogReadOnly ==
    /\ QUESTIONS = QUESTIONS0
    /\ CAREER_MAP = CAREER_MAP0
    /\ SUMMARY_BLURBS = SUMMARY_BLURBS0
    /\ (pc = "done" /\ response.route = "/api/questions") =>
          /\ response.kind = "return"
          /\ Len(response.body) = 12
          /\ \A k \in 1..12 :
                /\ response.body[k].id = k
                /\ DOMAIN response.body[k] = {"id", "text", "options"}
                /\ DOMAIN response.body[k].options = {"A", "B"}
                /\ response.body[k] = PublicQuestion(QUESTIONS0[k])

\* get_questions answers after a call of assess has ended
C9_Witness ==
    /\ pc = "done"
    /\ response.route = "/api/questions"
    /\ assessed
    /\ Len(response.body) = 12

\* C10: create_document is called only after every answer passed validation,
\* once per accepted request (not again when it raised) and never for a
\* rejected one, and the document it gets carries the scores, top_types,
\* careers and summary that assess returns
C10_PersistOnceAfterValidation ==
    /\ Len(created) <= 1
    /\ created # <<>> =>
          /\ pc \in {"return", "done"}
          /\ idx = Len(req.answers)
          /\ AllValid(req.answers)
    /\ pc = "return" => Len(created) = 1
    /\ (AssessEnded /\ response.kind = "HTTPException") => created = <<>>
    /\ AssessResult =>
          /\ Len(created) = 1
          /\ created[1].collection_name = "assessmentresult"
          /\ created[1].data.scores = response.body.scores
          /\ created[1].data.top_types = response.body.top_types
          /\ created[1].data.careers = response.body.careers
          /\ created[1].data.summary = response.body.summary
          /\ created[1].data.name = req.name
          /\ created[1].data.email = req.email

\* a result returned after the single call of create_document raised
C10_Witness ==
    /\ AssessResult
    /\ Len(created) = 1
    /\ created[1].raised
    /\ Len(req.answers) = NumQuestions
    /\ Total(created[1].data.scores) > 0

====
